---- MODULE Spec2Model ----
(***************************************************************************)
(* ImageClassifier (classifier.py) and BaseBackbone (backbones/base.py):   *)
(* construction, optimizer parameter grouping, the warmup/cosine learning  *)
(* rate schedule, the training step's mixed-sample stage, and the backbone *)
(* forward / get_feature_maps contract.                                    *)
(*                                                                         *)
(* Real numbers are fixed-point integers: learning-rate factors and the    *)
(* weight-decay coefficients in millionths (Scale), alphas and label       *)
(* weights in tenths.  Python's None is the string "None"; the optional    *)
(* norm_weight_decay is a sequence, empty for None.                        *)
(***************************************************************************)
EXTENDS Integers, Sequences, FiniteSets, TLC

\* ------------------------------------------------------------------ bounds
MaxModules == 3
NumParams == 2
MaxEpochs == 3
MaxWarmup == 3
BatchSize == 2
NumClasses == 2
MaxStages == 3

\* ------------------------------------------------------- program constants
Scale == 1000 * 1000
DefaultWeightDecay == 20
DefaultNormWeightDecay == 0
DefaultWarmupEpochs == 5
DefaultWarmupDecay == 10000
DefaultMixupAlpha == 2
DefaultCutmixAlpha == 10

optimizers == {"SGD", "Adam", "AdamW", "RMSprop"}

\* The names the backbones package exports (backbones.__dict__).
BackboneRegistry ==
    {"vovnet39", "vovnet19_ese", "darknet19", "darknet53", "cspdarknet53",
     "darknet_yolov5n", "resnet18", "mobilenet_v2"}

VARIABLES
    hp,             \* self.hparams
    max_epochs,     \* self.trainer.max_epochs
    tree,           \* the module tree under the ImageClassifier
    pc,             \* "start", "constructed", "configured", or an error state
    err,            \* the exception that ended construction / configuration / fit
    mixup_cutmix,   \* self.mixup_cutmix: "None" or "RandomCutMixMixUp"
    parameters,     \* what configure_optimizers hands to the optimizer
    optimizer,      \* the optimizer built
    lr_scheduler,   \* the scheduler returned
    last_epoch,     \* scheduler steps taken (the returned scheduler's last_epoch)
    sub_epoch,      \* last_epoch of each sub-scheduler
    active,         \* the sub-scheduler that produced the current factor
    lr_factor,      \* lr / base lr, in millionths
    batch,          \* the (images, labels) batch of the last training_step
    images_t,       \* train_transforms(images)
    fwd_images,     \* what training_step passed to self(...)
    loss_labels,    \* what training_step passed to F.cross_entropy as target
    bb,             \* a backbone built by a from_config factory
    maps_x, maps,   \* last get_feature_maps call: input and result
    fwd_x, fwd_out  \* last forward call: input and result

cfgVars == <<hp, max_epochs, tree>>
optVars == <<parameters, optimizer>>
schedVars == <<lr_scheduler, last_epoch, sub_epoch, active, lr_factor>>
trainVars == <<batch, images_t, fwd_images, loss_labels>>
bbVars == <<bb, maps_x, maps, fwd_x, fwd_out>>
vars == <<cfgVars, pc, err, mixup_cutmix, optVars, schedVars, trainVars, bbVars>>

\* ------------------------------------------------------------ module trees
\* A tree is [parent, norm, owners, requires_grad]: module 1 is the
\* ImageClassifier itself, parent[m] < m, norm[m] says m is an instance of
\* norm_classes, owners[p] is the set of modules holding parameter p in their
\* own _parameters (two owners: a tied weight; none: p does not exist).
ModuleIds(t) == 1..Len(t.parent)

RangeSeq(n) == [i \in 1..n |-> i]

\* module.children(): registration order.
children(t, m) == SelectSeq(RangeSeq(Len(t.parent)), LAMBDA c : t.parent[c] = m)

\* The concatenation of a sequence of sequences (list.extend, in order).
RECURSIVE Flatten(_)
Flatten(ss) ==
    IF ss = <<>> THEN <<>> ELSE Head(ss) \o Flatten(Tail(ss))

\* module.modules(): the module, then its descendants, depth first.
RECURSIVE modules(_, _)
modules(t, m) ==
    LET cs == children(t, m)
    IN <<m>> \o Flatten([i \in 1..Len(cs) |-> modules(t, cs[i])])

RECURSIVE Dedup(_)
Dedup(s) ==
    IF s = <<>> THEN <<>>
    ELSE LET r == Dedup(SubSeq(s, 1, Len(s) - 1))
             x == s[Len(s)]
         IN IF \E i \in 1..Len(r) : r[i] = x THEN r ELSE Append(r, x)

\* The module's own _parameters.
OwnParameters(t, m) == SelectSeq(RangeSeq(NumParams), LAMBDA p : m \in t.owners[p])

\* module.parameters(recurse): one call yields each tensor once.
ParametersOf(t, m, recurse) ==
    IF recurse
    THEN LET ms == modules(t, m)
         IN Dedup(Flatten([i \in 1..Len(ms) |-> OwnParameters(t, ms[i])]))
    ELSE OwnParameters(t, m)

Trainable(t, ps) == SelectSeq(ps, LAMBDA p : t.requires_grad[p])

\* next(module.children(), None): every child of the ImageClassifier is a
\* scripted module (lines 65-81), whose truth value is True, so the test is
\* "the module has a child".
HasChildren(t, m) == children(t, m) # <<>>

\* One pass of the loop body of lines 143-149 for module m: what it appends
\* to norm_params.
NormAppend(t, m) ==
    IF HasChildren(t, m) THEN <<>>
    ELSE IF t.norm[m] THEN Trainable(t, ParametersOf(t, m, TRUE))
    ELSE <<>>

\* Lines 144-149 with the type tested before the children.
OtherAppendTypeFirst(t, m) ==
    IF t.norm[m] THEN <<>>
    ELSE IF HasChildren(t, m) THEN Trainable(t, ParametersOf(t, m, FALSE))
    ELSE Trainable(t, ParametersOf(t, m, TRUE))

\* Lines 144-149: what the pass appends to other_params.
OtherAppend(t, m) ==
    IF HasChildren(t, m) THEN Trainable(t, ParametersOf(t, m, FALSE))
    ELSE IF t.norm[m] THEN <<>>
    ELSE Trainable(t, ParametersOf(t, m, TRUE))

\* Lines 141-149: the two buckets after the loop over self.modules().
norm_params(t) ==
    LET ms == modules(t, 1)
    IN Flatten([i \in 1..Len(ms) |-> NormAppend(t, ms[i])])
other_params(t) ==
    LET ms == modules(t, 1)
    IN Flatten([i \in 1..Len(ms) |-> OtherAppend(t, ms[i])])

\* Line 153 without its "if p" filter.
ParamGroupsUnfiltered(np, op, nwd, wd) ==
    << [params |-> np, weight_decay |-> nwd],
       [params |-> op, weight_decay |-> wd] >>

\* Lines 151-153: zip the buckets with their decay, keep the non-empty ones.
ParamGroups(np, op, nwd, wd) ==
    SelectSeq(<< [params |-> np, weight_decay |-> nwd],
                 [params |-> op, weight_decay |-> wd] >>,
              LAMBDA g : g.params # <<>>)

GroupedParameters(t, h) ==
    [kind |-> "groups",
     groups |-> ParamGroups(norm_params(t), other_params(t),
                            h.norm_weight_decay[1], h.weight_decay),
     params |-> <<>>]

FlatParameters(t) ==
    [kind |-> "flat", groups |-> <<>>, params |-> ParametersOf(t, 1, TRUE)]

\* Lines 137-156 with the test of norm_weight_decay dropped: a missing
\* norm_weight_decay groups with weight_decay.
BuildParametersAlwaysGrouped(t, h) ==
    GroupedParameters(t, [h EXCEPT !.norm_weight_decay =
                                      IF @ = <<>> THEN <<h.weight_decay>> ELSE @])

\* Lines 137-156.
BuildParameters(t, h) ==
    IF h.norm_weight_decay # <<>> THEN GroupedParameters(t, h)
    ELSE FlatParameters(t)

NoParameters == [kind |-> "none", groups |-> <<>>, params |-> <<>>]

\* torch.optim.Optimizer.__init__ as called on line 158: the groups it keeps,
\* each with the defaults filled in.
OptimizerGroups(ps, wd) ==
    IF ps.kind = "flat" THEN << [params |-> ps.params, weight_decay |-> wd] >>
    ELSE ps.groups

\* The ValueErrors of torch.optim.Optimizer: an empty parameter list, and a
\* parameter that appears in more than one group.
OptimizerRejects(ps) ==
    LET gs == OptimizerGroups(ps, 0)
    IN \/ gs = <<>>
       \/ ps.kind = "flat" /\ ps.params = <<>>
       \/ \E i, j \in 1..Len(gs) :
             /\ i < j
             /\ \E a \in 1..Len(gs[i].params), b \in 1..Len(gs[j].params) :
                   gs[i].params[a] = gs[j].params[b]

NoOptimizer == [name |-> "None", weight_decay |-> 0, param_groups |-> <<>>]

\* ------------------------------------------------------------ the schedule
CosTable ==
    << <<1000000, -1000000>>,
       <<1000000, 0, -1000000>>,
       <<1000000, 500000, -500000, -1000000>>,
       <<1000000, 707107, 0, -707107, -1000000>>,
       <<1000000, 809017, 309017, -309017, -809017, -1000000>>,
       <<1000000, 866025, 500000, 0, -500000, -866025, -1000000>> >>

Abs(n) == IF n < 0 THEN -n ELSE n

\* cos(pi * t / T) in millionths, T # 0.
Cos(t, T) ==
    LET A == Abs(T)
        r == t % (2 * A)
        k == IF r > A THEN 2 * A - r ELSE r
    IN CosTable[A][k + 1]

\* CosineAnnealingLR with eta_min = 0: lr / base_lr at last_epoch t.
CosineFactor(t, T) == (Scale + Cos(t, T)) \div 2

\* LinearLR with end_factor = 1: lr / base_lr at last_epoch t.
LinearFactor(t, total_iters, start_factor) ==
    LET k == IF t < total_iters THEN t ELSE total_iters
    IN start_factor + ((Scale - start_factor) * k) \div total_iters

\* Line 160 with the cosine phase clamped to at least one step.
CosineTMaxClamped(me, we) == IF me - we < 1 THEN 1 ELSE me - we

\* Line 160: T_max of the cosine phase.
CosineTMax(me, we) == me - we

\* Line 163: schedulers=[lr_scheduler, warmup_scheduler].
SequentialOrder == <<"CosineAnnealingLR", "LinearLR">>

\* Lines 160-167: the scheduler configure_optimizers returns.
BuildScheduler(h, me) ==
    IF h.warmup_epochs > 0
    THEN [kind |-> "SequentialLR",
          schedulers |-> SequentialOrder,
          milestones |-> <<h.warmup_epochs>>,
          T_max |-> CosineTMax(me, h.warmup_epochs),
          total_iters |-> h.warmup_epochs,
          start_factor |-> h.warmup_decay]
    ELSE [kind |-> "CosineAnnealingLR",
          schedulers |-> <<"CosineAnnealingLR">>,
          milestones |-> <<>>,
          T_max |-> CosineTMax(me, h.warmup_epochs),
          total_iters |-> 0,
          start_factor |-> Scale]

NoScheduler ==
    [kind |-> "None", schedulers |-> <<>>, milestones |-> <<>>,
     T_max |-> 0, total_iters |-> 0, start_factor |-> 0]

\* Whether stepping sub-scheduler `name` to last_epoch t divides by zero:
\* CosineAnnealingLR computes pi * last_epoch / T_max.
StepRaises(s, name) == name = "CosineAnnealingLR" /\ s.T_max = 0

\* lr / base_lr once sub-scheduler `name` is at last_epoch t.
FactorAt(s, name, t) ==
    IF name = "CosineAnnealingLR" THEN CosineFactor(t, s.T_max)
    ELSE LinearFactor(t, s.total_iters, s.start_factor)

\* bisect_right(milestones, e) + 1: the scheduler in charge at last_epoch e.
ActiveIndex(s, e) ==
    1 + Cardinality({i \in 1..Len(s.milestones) : s.milestones[i] <= e})

\* lr / base_lr right after construction: only the first scheduler has taken
\* its initial step (CosineAnnealingLR leaves lr at base_lr, LinearLR
\* multiplies it by start_factor).
InitialFactor(s) ==
    IF s.schedulers[1] = "CosineAnnealingLR" THEN Scale ELSE s.start_factor

SchedulerNames == {"CosineAnnealingLR", "LinearLR"}

InitialSubEpoch(s) ==
    [n \in SchedulerNames |-> IF n = s.schedulers[1] THEN 0 ELSE -1]

\* ------------------------------------------------------ the training step
Labels == 0..(NumClasses - 1)

Batches ==
    {[images |-> RangeSeq(BatchSize), labels |-> l] :
        l \in [1..BatchSize -> Labels]}

NoBatch == [images |-> <<>>, labels |-> <<>>]
NoLabels == [kind |-> "none", val |-> <<>>]

\* self.train_transforms: the scripted pipeline of lines 68-78 runs on the
\* batch tensor, one random draw for the whole batch; `aug` is that draw.
AugDraws == {"keep", "hflip"}
train_transforms(images, aug) ==
    [i \in 1..Len(images) |-> [src |-> images[i], aug |-> aug]]

\* RandomCutMixMixUp (extras): blend every sample with its partner under a
\* permutation, with weight lam (tenths) on the sample itself; labels become
\* distributions over the classes.
BatchPermutations == {f \in [1..BatchSize -> 1..BatchSize] :
                    \A i, j \in 1..BatchSize : f[i] = f[j] => i = j}
MixOps == {"mixup", "cutmix"}
Lambdas == {0, 5, 10}
OneHot(l, c) == IF l = c THEN 1 ELSE 0
MixImages(images, op, lam, perm) ==
    [i \in 1..Len(images) |->
        [op |-> op, a |-> images[i], b |-> images[perm[i]], lam |-> lam]]
MixLabels(labels, lam, perm) ==
    [i \in 1..Len(labels) |->
        [c \in Labels |->
            lam * OneHot(labels[i], c) + (10 - lam) * OneHot(labels[perm[i]], c)]]

\* Line 80 with "or" in place of "and".
MixupCutmixInitEither(cutmix_alpha, mixup_alpha) ==
    IF cutmix_alpha > 0 \/ mixup_alpha > 0 THEN "RandomCutMixMixUp" ELSE "None"

\* Lines 80-81: self.mixup_cutmix.
MixupCutmixInit(cutmix_alpha, mixup_alpha) ==
    IF cutmix_alpha > 0 /\ mixup_alpha > 0 THEN "RandomCutMixMixUp" ELSE "None"

\* ------------------------------------------------------------ the backbone
RECURSIVE Pow2(_)
Pow2(n) == IF n = 0 THEN 1 ELSE 2 * Pow2(n - 1)

Channels == {32, 64}

\* A backbone as a from_config factory builds it: out_channels_list and stride.
Backbones ==
    UNION {{[out_channels_list |-> ocl, stride |-> Pow2(n)] :
               ocl \in [1..n -> Channels]} : n \in 1..MaxStages}

\* Image batches (batch, 3, height, width).
Inputs == {<<n, 3, s, s>> : n \in {1, 2}, s \in {32, 224}}

\* get_feature_maps that loses the shallowest map.
get_feature_maps_short(b, x) ==
    [i \in 1..(Len(b.out_channels_list) - 1) |->
        <<x[1], b.out_channels_list[i + 1], x[3] \div Pow2(i + 1), x[4] \div Pow2(i + 1)>>]

\* get_feature_maps of a concrete backbone: one (batch, channels_i, height_i,
\* width_i) map per stage, shallowest first, each stage halving the resolution.
get_feature_maps(b, x) ==
    [i \in 1..Len(b.out_channels_list) |->
        <<x[1], b.out_channels_list[i], x[3] \div Pow2(i), x[4] \div Pow2(i)>>]

\* forward returning the first map.
forward_first(b, x) == get_feature_maps(b, x)[1]

\* BaseBackbone.forward: self.get_feature_maps(x)[-1].
forward(b, x) ==
    LET m == get_feature_maps(b, x) IN m[Len(m)]

NoBackbone == [out_channels_list |-> <<>>, stride |-> 0]

\* ------------------------------------------------------------------ inputs
ParentSeqs(n) ==
    {f \in [1..n -> 0..(n - 1)] : f[1] = 0 /\ \A i \in 2..n : f[i] >= 1 /\ f[i] < i}

\* The ImageClassifier registers sub-modules only (lines 65-81): it owns no
\* parameter itself.  A parameter has one owner, or two when it is tied.
OwnerSets(n) == {S \in SUBSET (2..n) : Cardinality(S) <= 2}

Trees ==
    UNION {{t \in [parent : ParentSeqs(n),
                   norm : {f \in [1..n -> BOOLEAN] : ~f[1]},
                   owners : [1..NumParams -> OwnerSets(n)],
                   requires_grad : [1..NumParams -> BOOLEAN]] :
               \A p \in 1..NumParams : t.owners[p] = {} => t.requires_grad[p]} :
           n \in 2..MaxModules}

\* The tree of the lifecycle runs: a chain ending in a batch norm, the first
\* parameter a weight of the backbone, the others the batch norm's.
DefaultTree ==
    [parent |-> [i \in 1..MaxModules |-> i - 1],
     norm |-> [i \in 1..MaxModules |-> i = MaxModules],
     owners |-> [p \in 1..NumParams |-> IF p = 1 THEN {2} ELSE {MaxModules}],
     requires_grad |-> [p \in 1..NumParams |-> TRUE]]

\* The defaults of __init__'s signature (lines 45-56).
DefaultHp ==
    [backbone |-> "darknet19",
     optimizer |-> "SGD",
     mixup_alpha |-> DefaultMixupAlpha,
     cutmix_alpha |-> DefaultCutmixAlpha,
     weight_decay |-> DefaultWeightDecay,
     norm_weight_decay |-> <<DefaultNormWeightDecay>>,
     warmup_epochs |-> DefaultWarmupEpochs,
     warmup_decay |-> DefaultWarmupDecay]

\* ----------------------------------------------------------------- actions
\* ImageClassifier.__init__ (lines 58-83).
Construct ==
    /\ pc = "start"
    /\ IF hp.backbone \notin BackboneRegistry
       THEN /\ pc' = "init_error"
            /\ err' = "KeyError"
            /\ UNCHANGED mixup_cutmix
       ELSE /\ pc' = "constructed"
            /\ mixup_cutmix' = MixupCutmixInit(hp.cutmix_alpha, hp.mixup_alpha)
            /\ UNCHANGED err
    /\ UNCHANGED <<cfgVars, optVars, schedVars, trainVars, bbVars>>

\* ImageClassifier.configure_optimizers (lines 136-172).
ConfigureOptimizers ==
    /\ pc = "constructed"
    /\ LET ps == BuildParameters(tree, hp)
       IN /\ parameters' = ps
          /\ IF hp.optimizer \notin optimizers
             THEN /\ pc' = "configure_error"
                  /\ err' = "KeyError"
                  /\ UNCHANGED <<optimizer, schedVars>>
             ELSE IF OptimizerRejects(ps)
             THEN /\ pc' = "configure_error"
                  /\ err' = "ValueError"
                  /\ UNCHANGED <<optimizer, schedVars>>
             ELSE LET s == BuildScheduler(hp, max_epochs)
                  IN /\ optimizer' =
                            [name |-> hp.optimizer,
                             weight_decay |-> hp.weight_decay,
                             param_groups |-> OptimizerGroups(ps, hp.weight_decay)]
                     /\ lr_scheduler' = s
                     /\ last_epoch' = 0
                     /\ sub_epoch' = InitialSubEpoch(s)
                     /\ active' = s.schedulers[1]
                     /\ lr_factor' = InitialFactor(s)
                     /\ pc' = "configured"
                     /\ UNCHANGED err
    /\ UNCHANGED <<cfgVars, mixup_cutmix, trainVars, bbVars>>

\* One lr_scheduler.step(), which the trainer calls at the end of each of its
\* max_epochs epochs.  SequentialLR.step: the scheduler in charge at the new
\* last_epoch takes step(0) at its milestone and step() otherwise.
SchedulerStep ==
    /\ pc = "configured"
    /\ last_epoch < max_epochs
    /\ LET e == last_epoch + 1
           idx == ActiveIndex(lr_scheduler, e)
           name == lr_scheduler.schedulers[idx]
           t == IF idx > 1 /\ lr_scheduler.milestones[idx - 1] = e
                THEN 0 ELSE sub_epoch[name] + 1
       IN IF StepRaises(lr_scheduler, name)
          THEN /\ pc' = "fit_error"
               /\ err' = "ZeroDivisionError"
               /\ UNCHANGED schedVars
          ELSE /\ last_epoch' = e
               /\ sub_epoch' = [sub_epoch EXCEPT ![name] = t]
               /\ active' = name
               /\ lr_factor' = FactorAt(lr_scheduler, name, t)
               /\ UNCHANGED <<lr_scheduler, pc, err>>
    /\ UNCHANGED <<cfgVars, mixup_cutmix, optVars, trainVars, bbVars>>

\* ImageClassifier.training_step (lines 111-122).
TrainingStep ==
    /\ pc \in {"constructed", "configured"}
    /\ \E b \in Batches, aug \in AugDraws :
          LET images == train_transforms(b.images, aug)
          IN /\ batch' = b
             /\ images_t' = images
             /\ IF mixup_cutmix # "None"
                THEN \E op \in MixOps, lam \in Lambdas, perm \in BatchPermutations :
                        /\ fwd_images' = MixImages(images, op, lam, perm)
                        /\ loss_labels' =
                              [kind |-> "soft", val |-> MixLabels(b.labels, lam, perm)]
                ELSE /\ fwd_images' = images
                     /\ loss_labels' = [kind |-> "index", val |-> b.labels]
    /\ UNCHANGED <<cfgVars, pc, err, mixup_cutmix, optVars, schedVars, bbVars>>

\* A call of backbone.get_feature_maps(x).
GetFeatureMaps ==
    /\ \E x \in Inputs :
          /\ maps_x' = x
          /\ maps' = get_feature_maps(bb, x)
    /\ UNCHANGED <<cfgVars, pc, err, mixup_cutmix, optVars, schedVars, trainVars,
                   bb, fwd_x, fwd_out>>

\* A call of backbone(x), that is BaseBackbone.forward(x).
Forward ==
    /\ \E x \in Inputs :
          /\ fwd_x' = x
          /\ fwd_out' = forward(bb, x)
    /\ UNCHANGED <<cfgVars, pc, err, mixup_cutmix, optVars, schedVars, trainVars,
                   bb, maps_x, maps>>

\* ---------------------------------------------------------- specifications
InitRest ==
    /\ err = "None"
    /\ mixup_cutmix = "None"
    /\ parameters = NoParameters
    /\ optimizer = NoOptimizer
    /\ lr_scheduler = NoScheduler
    /\ last_epoch = 0
    /\ sub_epoch = [n \in SchedulerNames |-> -1]
    /\ active = "None"
    /\ lr_factor = Scale
    /\ batch = NoBatch
    /\ images_t = <<>>
    /\ fwd_images = <<>>
    /\ loss_labels = NoLabels
    /\ maps_x = <<>>
    /\ maps = <<>>
    /\ fwd_x = <<>>
    /\ fwd_out = <<>>

\* Construction, optimizer configuration and the schedule, over the
\* hyper-parameters that decide them.
Init ==
    /\ pc = "start"
    /\ hp \in {[DefaultHp EXCEPT !.backbone = b, !.optimizer = o,
                                 !.mixup_alpha = ma, !.cutmix_alpha = ca,
                                 !.warmup_epochs = we, !.warmup_decay = wd] :
                  b \in {"darknet19", "not_a_model"},
                  o \in {"SGD", "AdamW", "Lion"},
                  ma \in {-2, DefaultMixupAlpha},
                  ca \in {0, DefaultCutmixAlpha},
                  we \in 0..MaxWarmup,
                  wd \in {DefaultWarmupDecay, Scale \div 2}}
    /\ max_epochs \in 1..MaxEpochs
    /\ tree = DefaultTree
    /\ bb = NoBackbone
    /\ InitRest

Next == Construct \/ ConfigureOptimizers \/ SchedulerStep

Spec == Init /\ [][Next]_vars

\* Parameter grouping: a constructed classifier over every module tree.
InitGroups ==
    /\ pc = "constructed"
    /\ hp \in {[DefaultHp EXCEPT !.norm_weight_decay = nwd] :
                  nwd \in {<<>>, <<DefaultNormWeightDecay>>}}
    /\ max_epochs = DefaultWarmupEpochs + MaxEpochs
    /\ tree \in Trees
    /\ bb = NoBackbone
    /\ InitRest

NextGroups == ConfigureOptimizers

SpecGroups ==
    /\ InitGroups
    /\ [][NextGroups]_vars

\* The training step, over the two alphas.
InitTrain ==
    /\ pc = "start"
    /\ hp \in {[DefaultHp EXCEPT !.mixup_alpha = ma, !.cutmix_alpha = ca] :
                  ma \in {-2, 0, DefaultMixupAlpha},
                  ca \in {-10, 0, DefaultCutmixAlpha}}
    /\ max_epochs = DefaultWarmupEpochs + MaxEpochs
    /\ tree = DefaultTree
    /\ bb = NoBackbone
    /\ InitRest

NextTrain == Construct \/ TrainingStep

SpecTrain == InitTrain /\ [][NextTrain]_vars

\* The backbone contract, over the backbones the factories build.
InitBackbone ==
    /\ pc = "start"
    /\ hp = DefaultHp
    /\ max_epochs = DefaultWarmupEpochs + MaxEpochs
    /\ tree = DefaultTree
    /\ bb \in Backbones
    /\ InitRest

NextBackbone == GetFeatureMaps \/ Forward

SpecBackbone == InitBackbone /\ [][NextBackbone]_vars

\* ------------------------------------------------------------------ claims
Range(f) == {f[i] : i \in DOMAIN f}

Exists(p) == tree.owners[p] # {}
IsTrainable(p) == Exists(p) /\ tree.requires_grad[p]
IsLeaf(m) == \A c \in ModuleIds(tree) : tree.parent[c] # m

\* The parameters of the groups that carry weight decay wd.
GroupSet(wd) ==
    UNION {Range(g.params) : g \in {h \in Range(parameters.groups) : h.weight_decay = wd}}

\* How often parameter p occurs over all groups.
Occurrences(p) ==
    Cardinality({<<i, j>> \in (1..Len(parameters.groups)) \X (1..NumParams * MaxModules) :
                    /\ j <= Len(parameters.groups[i].params)
                    /\ parameters.groups[i].params[j] = p})

Grouped == parameters.kind = "groups"

\* C1: with warmup_epochs > 0 the schedule is linear warmup first (from
\* warmup_decay, factor 1.0 after exactly warmup_epochs steps) and cosine
\* annealing over max_epochs - warmup_epochs steps from there on.
C1_WarmupThenCosine ==
    (pc = "configured" /\ hp.warmup_epochs > 0) =>
        /\ last_epoch < hp.warmup_epochs =>
              /\ active = "LinearLR"
              /\ lr_factor = LinearFactor(last_epoch, hp.warmup_epochs, hp.warmup_decay)
        /\ last_epoch = hp.warmup_epochs => lr_factor = Scale
        /\ (last_epoch >= hp.warmup_epochs /\ max_epochs > hp.warmup_epochs) =>
              /\ active = "CosineAnnealingLR"
              /\ lr_factor = CosineFactor(last_epoch - hp.warmup_epochs,
                                          max_epochs - hp.warmup_epochs)

\* C2: with norm_weight_decay set, the normalization group holds exactly the
\* trainable parameters of childless normalization modules, and the other
\* group every trainable parameter of a childless non-normalization module
\* and every trainable parameter owned directly by a module with children,
\* whatever its type.
C2_GroupsByLeafType ==
    Grouped =>
        /\ GroupSet(hp.norm_weight_decay[1]) =
              {p \in 1..NumParams :
                  /\ IsTrainable(p)
                  /\ \E m \in tree.owners[p] : IsLeaf(m) /\ tree.norm[m]}
        /\ GroupSet(hp.weight_decay) =
              {p \in 1..NumParams :
                  /\ IsTrainable(p)
                  /\ \E m \in tree.owners[p] : ~IsLeaf(m) \/ ~tree.norm[m]}

\* A normalization-typed module with a child owns a trainable parameter, which
\* went to the other group, next to a non-empty normalization group.
C2_Witness ==
    /\ Grouped
    /\ GroupSet(hp.norm_weight_decay[1]) # {}
    /\ \E p \in GroupSet(hp.weight_decay) :
          /\ p \notin GroupSet(hp.norm_weight_decay[1])
          /\ \A m \in tree.owners[p] : tree.norm[m] /\ ~IsLeaf(m)

\* C3: no group handed to the optimizer has an empty parameter list.
C3_NoEmptyGroup ==
    Grouped =>
        /\ \A i \in 1..Len(parameters.groups) : parameters.groups[i].params # <<>>
        /\ \A i \in 1..Len(optimizer.param_groups) :
              optimizer.param_groups[i].params # <<>>

\* The normalization bucket collected nothing and only the other group was
\* handed over.
C3_Witness ==
    /\ pc = "configured"
    /\ Grouped
    /\ Len(parameters.groups) = 1
    /\ parameters.groups[1].weight_decay = hp.weight_decay
    /\ \A p \in 1..NumParams :
          IsTrainable(p) => \A m \in tree.owners[p] : ~(IsLeaf(m) /\ tree.norm[m])

\* C4: with norm_weight_decay None nothing is grouped: the optimizer gets the
\* flat parameter set of the module, each parameter once, trainable or not,
\* under the single coefficient weight_decay.
C4_FlatWhenNone ==
    (hp.norm_weight_decay = <<>> /\ parameters.kind # "none") =>
        /\ parameters.kind = "flat"
        /\ parameters.groups = <<>>
        /\ Range(parameters.params) = {p \in 1..NumParams : Exists(p)}
        /\ Len(parameters.params) = Cardinality(Range(parameters.params))
        /\ pc = "configured" =>
              /\ Len(optimizer.param_groups) = 1
              /\ optimizer.param_groups[1].params = parameters.params
              /\ optimizer.param_groups[1].weight_decay = hp.weight_decay

\* A tree with a normalization leaf and a frozen parameter, handed over flat.
C4_Witness ==
    /\ pc = "configured"
    /\ hp.norm_weight_decay = <<>>
    /\ parameters.kind = "flat"
    /\ \E p \in Range(parameters.params) : ~tree.requires_grad[p]
    /\ \E p \in Range(parameters.params) :
          \E m \in tree.owners[p] : IsLeaf(m) /\ tree.norm[m]

\* C5: training_step mixes samples exactly when both alphas were positive at
\* construction; otherwise the transformed images and the integer labels go
\* unchanged to the forward pass and the loss.
C5_MixIffBothPositive ==
    (loss_labels.kind # "none") =>
        /\ (loss_labels.kind = "soft") <=> (hp.mixup_alpha > 0 /\ hp.cutmix_alpha > 0)
        /\ ~(hp.mixup_alpha > 0 /\ hp.cutmix_alpha > 0) =>
              /\ loss_labels.kind = "index"
              /\ loss_labels.val = batch.labels
              /\ fwd_images = images_t

\* A step with only one alpha positive passed the batch through.
C5_Witness ==
    /\ loss_labels.kind = "index"
    /\ hp.mixup_alpha > 0
    /\ hp.cutmix_alpha <= 0
    /\ fwd_images = images_t
    /\ \E i, j \in 1..BatchSize : batch.labels[i] # batch.labels[j]

\* C6: forward(x) is the last element of get_feature_maps(x), a single
\* 4-dimensional tensor.
C6_ForwardIsLastMap ==
    (fwd_x # <<>> /\ fwd_x = maps_x) =>
        /\ fwd_out = maps[Len(maps)]
        /\ Len(fwd_out) = 4

\* Both calls made on the same batch by a backbone of several stages.
C6_Witness ==
    /\ fwd_x # <<>>
    /\ fwd_x = maps_x
    /\ Len(maps) >= 2
    /\ fwd_out = maps[Len(maps)]
    /\ fwd_out # maps[1]

\* C7: get_feature_maps returns len(out_channels_list) maps, the i-th a
\* 4-dimensional tensor with out_channels_list[i] channels.
C7_MapsMatchChannels ==
    (maps_x # <<>>) =>
        /\ Len(maps) = Len(bb.out_channels_list)
        /\ \A i \in 1..Len(maps) :
              /\ Len(maps[i]) = 4
              /\ maps[i][2] = bb.out_channels_list[i]

\* A backbone of several stages with differing channel counts was called.
C7_Witness ==
    /\ maps_x # <<>>
    /\ Len(maps) >= 2
    /\ maps[1][2] # maps[Len(maps)][2]

\* C8: an unknown backbone name or an unknown optimizer name fails in
\* __init__: such an object is never constructed, let alone configured.
C8_UnknownNameFailsAtInit ==
    (hp.backbone \notin BackboneRegistry \/ hp.optimizer \notin optimizers) =>
        pc \in {"start", "init_error"}

C10_GroupsPartition ==
    Grouped =>
        \A p \in 1..NumParams :
            Occurrences(p) = (IF IsTrainable(p) THEN 1 ELSE 0)

====
